---- MODULE Spec2Model ----
(***************************************************************************)
(* Model of the u8g2_font! procedural macro (src/src/lib.rs).              *)
(*                                                                         *)
(* One expansion of the macro runs generate_font_data: it resolves the     *)
(* font path, resolves the character selection, runs otf2bdf, writes the   *)
(* .bdf file next to the font, runs bdfconv on it, removes the .bdf file   *)
(* and emits the tokens.  Several expansions may run at the same time      *)
(* (one per compiler process); they share only the file system and the     *)
(* CARGO_MANIFEST_DIR environment value.                                   *)
(*                                                                         *)
(* Representation.  A Rust char is modelled by its Unicode scalar value,   *)
(* a Rust String / path / argument by the sequence of its characters, each *)
(* a one-character TLA+ string.  File contents are records that name what  *)
(* produced them.                                                          *)
(***************************************************************************)
EXTENDS Integers, Sequences, FiniteSets, TLC

VARIABLES
    manifest_dir,          \* env::var("CARGO_MANIFEST_DIR"): [set, value]
    fs,                    \* the file system: path -> file content or Absent
    req,                   \* per expansion: the FontInput (path, name, size, specs)
    pc,                    \* per expansion: position in generate_font_data
    font_path,             \* per expansion: local font_path
    unicode_code_points,   \* per expansion: local unicode_code_points
    bdf_file_path,         \* per expansion: local bdf_file_path
    bdf_output,            \* per expansion: local bdf_output
    font_bytes,            \* per expansion: local font_bytes
    result,                \* per expansion: what generate_font_data returned
    calls,                 \* per expansion: the Command invocations it made
    stages,                \* per expansion: the statements that completed with Ok
    selection,             \* input of a stand-alone specs_to_unicode_code_points call
    code_points,           \* its return value
    resolved               \* whether that call has returned

vars == <<manifest_dir, fs, req, pc, font_path, unicode_code_points, bdf_file_path,
          bdf_output, font_bytes, result, calls, stages, selection, code_points,
          resolved>>

pipeline_vars == <<manifest_dir, fs, req, pc, font_path, unicode_code_points,
                   bdf_file_path, bdf_output, font_bytes, result, calls, stages>>

resolver_vars == <<selection, code_points, resolved>>

-----------------------------------------------------------------------------
(* Bounds *)

\* Longest list of `chars` entries given to a stand-alone resolver call.
MaxSpecs == 2

-----------------------------------------------------------------------------
(* Strings *)

Digits == <<"0", "1", "2", "3", "4", "5", "6", "7", "8", "9">>

\* u32::to_string: the decimal digits, most significant first, no padding.
RECURSIVE to_string(_)
to_string(n) ==
    IF n < 10 THEN <<Digits[n + 1]>>
    ELSE to_string(n \div 10) \o <<Digits[(n % 10) + 1]>>

\* A join that puts sep after every item, the last one included.
RECURSIVE join_trailing(_, _)
join_trailing(items, sep) ==
    IF items = <<>> THEN <<>>
    ELSE items[1] \o sep \o join_trailing(Tail(items), sep)

\* [String]::join(sep): the items with sep between neighbours only.
RECURSIVE join(_, _)
join(items, sep) ==
    IF items = <<>> THEN <<>>
    ELSE IF Len(items) = 1 THEN items[1]
    ELSE items[1] \o sep \o join(Tail(items), sep)

\* iter().map(|c| c.to_string()).collect::<Vec<String>>()
DecimalStrings(points) == [i \in 1..Len(points) |-> to_string(points[i])]

-----------------------------------------------------------------------------
(* CharacterSet and specs_to_unicode_code_points *)

Numbers == [kind |-> "Numbers", s |-> <<>>]
LowerCase == [kind |-> "LowerCase", s |-> <<>>]
UpperCase == [kind |-> "UpperCase", s |-> <<>>]
Punctuation == [kind |-> "Punctuation", s |-> <<>>]
String(str) == [kind |-> "String", s |-> str]

\* lo..=hi as the sequence the range iterator yields.
RangeInclusive(lo, hi) == [i \in 1..(hi - lo + 1) |-> lo + i - 1]

\* The literal ".,'\"?!:;()-" as scalar values, in the order of the literal.
PunctuationChars == <<46, 44, 39, 34, 63, 33, 58, 59, 40, 41, 45>>

\* The characters one match arm feeds to collected_chars.insert, in order.
SpecChars(spec) ==
    CASE spec.kind = "String" -> spec.s
      [] spec.kind = "Numbers" -> RangeInclusive(48, 57)
      [] spec.kind = "LowerCase" -> RangeInclusive(97, 122)
      [] spec.kind = "UpperCase" -> RangeInclusive(65, 90)
      [] spec.kind = "Punctuation" -> PunctuationChars

\* A Vec push: keeps arrival order and repeats (what a BTreeSet does not do).
PushBack(set, c) == Append(set, c)

\* BTreeSet::insert on the set held as its ascending iteration order: a value
\* already present is not added, a new one goes after the values less than it.
BTreeSetInsert(set, c) ==
    IF \E i \in 1..Len(set) : set[i] = c THEN set
    ELSE LET less == Cardinality({ i \in 1..Len(set) : set[i] < c })
         IN  SubSeq(set, 1, less) \o <<c>> \o SubSeq(set, less + 1, Len(set))

\* chars.for_each(|c| { collected_chars.insert(c); }): one insertion
\* after the other.  (The test on the length never succeeds; it makes TLC
\* finish an insertion before it starts the next one.)
RECURSIVE InsertAll(_, _)
InsertAll(set, chars) ==
    IF chars = <<>> THEN set
    ELSE LET inserted == BTreeSetInsert(set, Head(chars))
         IN  IF Len(inserted) = 0 THEN inserted
             ELSE InsertAll(inserted, Tail(chars))

\* for spec in specs { match spec { ... } }: one entry after the other.
\* (The test on the length never succeeds; see InsertAll.)
RECURSIVE CollectChars(_, _)
CollectChars(set, specs) ==
    IF specs = <<>> THEN set
    ELSE LET collected == InsertAll(set, SpecChars(Head(specs)))
         IN  IF Len(collected) < 0 THEN collected
             ELSE CollectChars(collected, Tail(specs))

\* `c as u32`: a char is its scalar value.
CharAsU32(c) == c

\* collected_chars.iter().map(|&c| (c as u32)).collect::<Vec<u32>>()
specs_to_unicode_code_points(specs) ==
    LET collected_chars == CollectChars(<<>>, specs)
    IN  [i \in 1..Len(collected_chars) |-> CharAsU32(collected_chars[i])]

-----------------------------------------------------------------------------
(* A stand-alone call of specs_to_unicode_code_points *)

\* The `chars` entries the resolver is tried on.
Entries ==
    { Numbers, LowerCase, UpperCase, Punctuation,
      String(<<>>),
      String(<<97, 97, 98, 98, 99, 99>>),      \* "aabbcc"
      String(<<97, 98>>),                      \* "ab"
      String(<<98, 97, 48>>),                  \* "ba0"
      String(<<122, 33, 65, 233>>) }           \* "z!A\u{e9}"

SeqsUpTo(S, n) == UNION { [1..k -> S] : k \in 0..n }

ResolverIdle ==
    /\ selection = <<>>
    /\ code_points = <<>>
    /\ resolved = FALSE

ResolverInit ==
    /\ selection \in SeqsUpTo(Entries, MaxSpecs)
    /\ code_points = <<>>
    /\ resolved = FALSE

ResolveSelection ==
    /\ ~resolved
    /\ code_points' = specs_to_unicode_code_points(selection)
    /\ resolved' = TRUE
    /\ UNCHANGED selection

-----------------------------------------------------------------------------
(* Paths *)

\* Index of the last occurrence of ch in s, 0 when there is none.
RECURSIVE LastIndexOf(_, _)
LastIndexOf(s, ch) ==
    IF s = <<>> THEN 0
    ELSE IF s[Len(s)] = ch THEN Len(s)
    ELSE LastIndexOf(SubSeq(s, 1, Len(s) - 1), ch)

\* PathBuf::join: an absolute argument replaces the base, a relative one is
\* appended after a separator.
PathJoin(base, rel) ==
    IF rel # <<>> /\ rel[1] = "/" THEN rel
    ELSE IF base # <<>> /\ base[Len(base)] = "/" THEN base \o rel
    ELSE base \o <<"/">> \o rel

\* Path::file_name: the last component.
file_name(path) == SubSeq(path, LastIndexOf(path, "/") + 1, Len(path))

\* Length of Path::file_stem: the file name up to its last dot; the whole
\* name when it has no dot or only a leading one.
file_stem_len(name) ==
    LET dot == LastIndexOf(name, ".")
    IN  IF dot <= 1 THEN Len(name) ELSE dot - 1

\* Path::with_extension: the file stem is kept and the extension replaced;
\* a path without a file name is returned as it is.
with_extension(path, ext) ==
    LET name == file_name(path)
    IN  IF name = <<>> \/ name = <<".", ".">> THEN path
        ELSE SubSeq(path, 1, Len(path) - Len(name) + file_stem_len(name))
                 \o <<".">> \o ext

-----------------------------------------------------------------------------
(* The requests and the file system they run on *)

\* The expansions that may run at the same time.
Workers == {1, 2}

ManifestDir == <<"/", "p">>

x_ttf == <<"x", ".", "t", "t", "f">>
x_otf == <<"x", ".", "o", "t", "f">>
y_bdf == <<"y", ".", "b", "d", "f">>

FontInput(path, name, size, specs) ==
    [path |-> path, name |-> name, size |-> size, specs |-> specs]

\* The macro inputs tried: the same font at two sizes, two fonts with one
\* stem, a font that is itself a .bdf file, and an empty `chars` list.
Requests ==
    { FontInput(x_ttf, "Body12", <<"1", "2">>, <<Numbers>>),
      FontInput(x_ttf, "Body16", <<"1", "6">>, <<String(<<97, 97, 98, 98, 99, 99>>)>>),
      FontInput(x_otf, "Alt12", <<"1", "2">>, <<String(<<98, 97>>), Numbers>>),
      FontInput(y_bdf, "Bitmap8", <<"8">>, <<Punctuation>>),
      FontInput(x_ttf, "Empty12", <<"1", "2">>, <<>>) }

FontFiles == { PathJoin(ManifestDir, r.path) : r \in Requests }

Paths == FontFiles \cup { with_extension(p, <<"b", "d", "f">>) : p \in FontFiles }

Absent == [kind |-> "absent"]

\* What a font file holds before any expansion has run.
FontContent(p) == [kind |-> "font", of |-> p]

NoBytes == [kind |-> "none"]

NoResult == [status |-> "none", msg |-> "", name |-> "", data |-> NoBytes]
Ok(name, data) == [status |-> "Ok", msg |-> "", name |-> name, data |-> data]
Err(msg) == [status |-> "Err", msg |-> msg, name |-> "", data |-> NoBytes]

-----------------------------------------------------------------------------
(* The two external programs, as far as the macro can see them *)

\* How Command::output() can end: the program ran and exited 0, it could not
\* be started (ErrorKind::NotFound or another io::Error), or it ran and
\* exited non-zero.
Outcomes == {"success", "not_found", "io_error", "exit_failure"}

\* otf2bdf's standard output: determined by the font file it reads and by
\* its -p and -l arguments.
Otf2bdfStdout(args) == [kind |-> "bdf", from |-> fs[args[5]], p |-> args[2], l |-> args[4]]

\* bdfconv's standard output: determined by the file it reads and by its
\* -m argument.
BdfconvStdout(args) == [kind |-> "u8g2", from |-> fs[args[6]], m |-> args[4]]

\* A program cannot exit 0 without the file it was told to read.
CanEndAs(outcome, input) == outcome = "success" => fs[input] # Absent

-----------------------------------------------------------------------------
(* generate_font_data, one statement per action *)

Terminal == {"Emitted", "Failed"}

\* One fallible statement of generate_font_data has run for expansion w:
\* `happened` is what really took place, r the syn::Result the code made of
\* it.  On Ok the expansion moves on to `to`; on Err the `?` returns the
\* error and nothing more runs.
Step(w, stage, happened, r, to) ==
    /\ stages' = [stages EXCEPT ![w] = Append(@, [stage |-> stage, ok |-> happened])]
    /\ IF r.status = "Ok"
       THEN /\ pc' = [pc EXCEPT ![w] = to]
            /\ UNCHANGED result
       ELSE /\ pc' = [pc EXCEPT ![w] = "Failed"]
            /\ result' = [result EXCEPT ![w] = r]

\* An existence test that is never made.
path_exists_unchecked(path) == TRUE

\* font_path.exists()
path_exists(path) == fs[path] # Absent

\* fn resolve_font_path(path_lit) -> syn::Result<PathBuf>
resolve_font_path_result(path_lit) ==
    IF ~manifest_dir.set THEN Err("CARGO_MANIFEST_DIR not set")
    ELSE LET joined == PathJoin(manifest_dir.value, path_lit)
         IN  IF ~path_exists(joined) THEN Err("Font file does not exist")
             ELSE Ok("", joined)

\* let font_path = resolve_font_path(&path)?;
resolve_font_path(w) ==
    /\ pc[w] = "Start"
    /\ LET r == resolve_font_path_result(req[w].path)
       IN  /\ Step(w, "resolve_font_path",
                   manifest_dir.set /\ fs[PathJoin(manifest_dir.value, req[w].path)] # Absent,
                   r, "PathResolved")
           /\ font_path' = [font_path EXCEPT ![w] = IF r.status = "Ok" THEN r.data ELSE @]
    /\ UNCHANGED <<manifest_dir, fs, req, unicode_code_points, bdf_file_path,
                   bdf_output, font_bytes, calls>>
    /\ UNCHANGED resolver_vars

\* let unicode_code_points = specs_to_unicode_code_points(&specs);
\* let bdf_file_path = font_path.with_extension("bdf");
resolve_code_points(w) ==
    /\ pc[w] = "PathResolved"
    /\ unicode_code_points' =
           [unicode_code_points EXCEPT ![w] = specs_to_unicode_code_points(req[w].specs)]
    /\ bdf_file_path' =
           [bdf_file_path EXCEPT ![w] = with_extension(font_path[w], <<"b", "d", "f">>)]
    /\ Step(w, "specs_to_unicode_code_points", TRUE, Ok("", <<>>), "CharsResolved")
    /\ UNCHANGED <<manifest_dir, fs, req, font_path, bdf_output, font_bytes, calls>>
    /\ UNCHANGED resolver_vars

\* The argument list generate_bdf_from_otf hands to Command::new("otf2bdf").
Otf2bdfArgs(path, size_value, points) ==
    << <<"-", "p">>, size_value, <<"-", "l">>,
       join(DecimalStrings(points), <<" ">>), path >>

\* An otf2bdf call whose exit status is never looked at.
otf2bdf_result_unchecked(outcome, stdout) ==
    CASE outcome \in {"success", "exit_failure"} -> Ok("", stdout)
      [] outcome = "not_found" -> Err("Failed to run otf2bdf: not found")
      [] outcome = "io_error" -> Err("Failed to run otf2bdf")

\* What generate_bdf_from_otf makes of the way the command ended.
otf2bdf_result(outcome, stdout) ==
    CASE outcome = "success" -> Ok("", stdout)
      [] outcome = "not_found" -> Err("Failed to run otf2bdf: not found")
      [] outcome = "io_error" -> Err("Failed to run otf2bdf")
      [] outcome = "exit_failure" -> Err("otf2bdf command failed")

\* let bdf_output = generate_bdf_from_otf(&font_path, size_value, &unicode_code_points)?;
generate_bdf_from_otf(w) ==
    /\ pc[w] = "CharsResolved"
    /\ \E outcome \in Outcomes :
         LET args == Otf2bdfArgs(font_path[w], req[w].size, unicode_code_points[w])
             r == otf2bdf_result(outcome, Otf2bdfStdout(args))
         IN  /\ CanEndAs(outcome, font_path[w])
             /\ calls' = [calls EXCEPT ![w] =
                    Append(@, [program |-> "otf2bdf", args |-> args, outcome |-> outcome])]
             /\ bdf_output' = [bdf_output EXCEPT ![w] = IF r.status = "Ok" THEN r.data ELSE @]
             /\ Step(w, "generate_bdf_from_otf", outcome = "success", r, "Rasterized")
    /\ UNCHANGED <<manifest_dir, fs, req, font_path, unicode_code_points,
                   bdf_file_path, font_bytes>>
    /\ UNCHANGED resolver_vars

\* How fs::write can end: the file holds the bytes; nothing was created
\* (File::create failed); or the file was created and the write into it
\* failed, which leaves a file without the whole content.
WriteOutcomes == {"written", "not_created", "partial"}

Partial == [kind |-> "partial"]

\* What line 114 makes of fs::write's io::Result.
write_result(outcome) ==
    IF outcome = "written" THEN Ok("", <<>>) ELSE Err("Failed to write .bdf file")

\* fs::write(&bdf_file_path, bdf_output).map_err(...)?;
write_bdf_file(w) ==
    /\ pc[w] = "Rasterized"
    /\ \E outcome \in WriteOutcomes :
         /\ fs' = CASE outcome = "written" -> [fs EXCEPT ![bdf_file_path[w]] = bdf_output[w]]
                    [] outcome = "partial" -> [fs EXCEPT ![bdf_file_path[w]] = Partial]
                    [] outcome = "not_created" -> fs
         /\ Step(w, "fs::write", outcome = "written", write_result(outcome), "Written")
    /\ UNCHANGED <<manifest_dir, req, font_path, unicode_code_points, bdf_file_path,
                   bdf_output, font_bytes, calls>>
    /\ UNCHANGED resolver_vars

\* The argument list generate_font_bytes_from_bdf hands to Command::new(bdfconv_path).
BdfconvArgs(path, points) ==
    << <<"-", "f">>, <<"1">>, <<"-", "m">>,
       join(DecimalStrings(points), <<",">>),
       <<"-", "b", "i", "n", "a", "r", "y">>, path >>

\* A bdfconv call whose exit status is never looked at.
bdfconv_result_unchecked(outcome, stdout) ==
    CASE outcome \in {"success", "exit_failure"} -> Ok("", stdout)
      [] outcome = "not_found" -> Err("Failed to run bdfconv: not found")
      [] outcome = "io_error" -> Err("Failed to run bdfconv")

\* What generate_font_bytes_from_bdf makes of the way the command ended.
bdfconv_result(outcome, stdout) ==
    CASE outcome = "success" -> Ok("", stdout)
      [] outcome = "not_found" -> Err("Failed to run bdfconv: not found")
      [] outcome = "io_error" -> Err("Failed to run bdfconv")
      [] outcome = "exit_failure" -> Err("bdfconv command failed")

\* let font_bytes = generate_font_bytes_from_bdf(&bdf_file_path, &unicode_code_points)?;
generate_font_bytes_from_bdf(w) ==
    /\ pc[w] = "Written"
    /\ \E outcome \in Outcomes :
         LET args == BdfconvArgs(bdf_file_path[w], unicode_code_points[w])
             r == bdfconv_result(outcome, BdfconvStdout(args))
         IN  /\ CanEndAs(outcome, bdf_file_path[w])
             /\ calls' = [calls EXCEPT ![w] =
                    Append(@, [program |-> "bdfconv", args |-> args, outcome |-> outcome])]
             /\ font_bytes' = [font_bytes EXCEPT ![w] = IF r.status = "Ok" THEN r.data ELSE @]
             /\ Step(w, "generate_font_bytes_from_bdf", outcome = "success", r, "Packed")
    /\ UNCHANGED <<manifest_dir, fs, req, font_path, unicode_code_points,
                   bdf_file_path, bdf_output>>
    /\ UNCHANGED resolver_vars

\* A removal whose io::Result is dropped (`let _ = fs::remove_file(..)`).
remove_file_result_ignored(removed) == Ok("", <<>>)

\* What line 117 makes of fs::remove_file's io::Result.
remove_file_result(removed) ==
    IF removed THEN Ok("", <<>>) ELSE Err("Failed to remove temporary .bdf file")

\* fs::remove_file(&bdf_file_path).map_err(...)?;
\* Removing a file that is not there is an error (ErrorKind::NotFound).
remove_bdf_file(w) ==
    /\ pc[w] = "Packed"
    /\ \E removed \in BOOLEAN :
         /\ removed => fs[bdf_file_path[w]] # Absent
         /\ fs' = IF removed THEN [fs EXCEPT ![bdf_file_path[w]] = Absent] ELSE fs
         /\ Step(w, "fs::remove_file", removed, remove_file_result(removed), "Removed")
    /\ UNCHANGED <<manifest_dir, req, font_path, unicode_code_points, bdf_file_path,
                   bdf_output, font_bytes, calls>>
    /\ UNCHANGED resolver_vars

\* generate_output_tokens(&name, &font_bytes): always Ok, and what
\* generate_font_data returns.
generate_output_tokens(w) ==
    /\ pc[w] = "Removed"
    /\ stages' = [stages EXCEPT ![w] = Append(@, [stage |-> "generate_output_tokens", ok |-> TRUE])]
    /\ pc' = [pc EXCEPT ![w] = "Emitted"]
    /\ result' = [result EXCEPT ![w] = Ok(req[w].name, font_bytes[w])]
    /\ UNCHANGED <<manifest_dir, fs, req, font_path, unicode_code_points,
                   bdf_file_path, bdf_output, font_bytes, calls>>
    /\ UNCHANGED resolver_vars

\* One statement of one expansion.
generate_font_data(w) ==
    \/ resolve_font_path(w)
    \/ resolve_code_points(w)
    \/ generate_bdf_from_otf(w)
    \/ write_bdf_file(w)
    \/ generate_font_bytes_from_bdf(w)
    \/ remove_bdf_file(w)
    \/ generate_output_tokens(w)

-----------------------------------------------------------------------------
(* Specifications *)

FsWith(present) == [p \in Paths |-> IF p \in present THEN FontContent(p) ELSE Absent]

PipelineInit ==
    /\ manifest_dir \in { [set |-> TRUE, value |-> ManifestDir],
                          [set |-> FALSE, value |-> <<>>] }
    /\ fs \in { FsWith(present) : present \in SUBSET FontFiles }
    /\ req \in [Workers -> Requests]
    /\ pc = [w \in Workers |-> "Start"]
    /\ font_path = [w \in Workers |-> <<>>]
    /\ unicode_code_points = [w \in Workers |-> <<>>]
    /\ bdf_file_path = [w \in Workers |-> <<>>]
    /\ bdf_output = [w \in Workers |-> NoBytes]
    /\ font_bytes = [w \in Workers |-> NoBytes]
    /\ result = [w \in Workers |-> NoResult]
    /\ calls = [w \in Workers |-> <<>>]
    /\ stages = [w \in Workers |-> <<>>]

PipelineIdle ==
    /\ manifest_dir = [set |-> TRUE, value |-> ManifestDir]
    /\ fs = FsWith({})
    /\ req = [w \in Workers |-> CHOOSE r \in Requests : TRUE]
    /\ pc = [w \in Workers |-> "Start"]
    /\ font_path = [w \in Workers |-> <<>>]
    /\ unicode_code_points = [w \in Workers |-> <<>>]
    /\ bdf_file_path = [w \in Workers |-> <<>>]
    /\ bdf_output = [w \in Workers |-> NoBytes]
    /\ font_bytes = [w \in Workers |-> NoBytes]
    /\ result = [w \in Workers |-> NoResult]
    /\ calls = [w \in Workers |-> <<>>]
    /\ stages = [w \in Workers |-> <<>>]

\* Expansions running at the same time, their statements interleaved.
Init == PipelineInit /\ ResolverIdle
Next == \E w \in Workers : generate_font_data(w)
Spec == Init /\ [][Next]_vars

\* One expansion running alone.
SoloNext == generate_font_data(1)
SoloSpec == Init /\ [][SoloNext]_vars

\* One call of specs_to_unicode_code_points on every list of entries.
ResolverStart == PipelineIdle /\ ResolverInit
ResolverNext == ResolveSelection /\ UNCHANGED pipeline_vars
ResolverSpec == ResolverStart /\ [][ResolverNext]_vars

-----------------------------------------------------------------------------
(* Reading the record of a run *)

Range(s) == { s[i] : i \in DOMAIN s }

\* The statement `stage` of expansion w has run / has run and did what it
\* was for / has run and did not.
Ran(w, stage) == \E e \in Range(stages[w]) : e.stage = stage
Succeeded(w, stage) == \E e \in Range(stages[w]) : e.stage = stage /\ e.ok
FailedAt(w, stage) == \E e \in Range(stages[w]) : e.stage = stage /\ ~e.ok

CallsOf(w, program) == SelectSeq(calls[w], LAMBDA c : c.program = program)

\* The error kinds of the specification, as the messages the code gives.
FontNotFound == Err("Font file does not exist")
IntermediateWriteFailed == Err("Failed to write .bdf file")
IntermediateCleanupFailed == Err("Failed to remove temporary .bdf file")
ConversionServiceUnavailable(program) ==
    IF program = "otf2bdf"
    THEN {Err("Failed to run otf2bdf: not found"), Err("Failed to run otf2bdf")}
    ELSE {Err("Failed to run bdfconv: not found"), Err("Failed to run bdfconv")}
ConversionServiceFailed(program) ==
    IF program = "otf2bdf"
    THEN {Err("otf2bdf command failed")}
    ELSE {Err("bdfconv command failed")}

\* The error a conversion service's way of ending corresponds to.
ServiceErrors(program, outcome) ==
    IF outcome = "exit_failure" THEN ConversionServiceFailed(program)
    ELSE ConversionServiceUnavailable(program)

-----------------------------------------------------------------------------
(* C1 *)

\* C1: cleanup invariant.  Whenever a run of generate_font_data that put
\* the intermediate .bdf file on disk (a file of its own, next to the font)
\* has returned, with the tokens or with any error, that file does not
\* exist.
C1_CleanupInvariant ==
    \A w \in Workers :
        (pc[w] \in Terminal /\ Succeeded(w, "fs::write") /\ bdf_file_path[w] # font_path[w])
            => fs[bdf_file_path[w]] = Absent

-----------------------------------------------------------------------------
(* C2 *)

\* C2: path validation.  A run whose joined font path did not exist when it
\* was resolved has failed with FontNotFound, has invoked neither otf2bdf
\* nor bdfconv, and has run no statement after the resolution (so it wrote
\* no intermediate file).
C2_PathValidation ==
    \A w \in Workers :
        (manifest_dir.set /\ FailedAt(w, "resolve_font_path"))
            => /\ pc[w] = "Failed"
               /\ result[w] = FontNotFound
               /\ calls[w] = <<>>
               /\ Len(stages[w]) = 1
               /\ ~Ran(w, "fs::write")

\* A run has returned FontNotFound for a font file that is not there.
C2_Witness ==
    \E w \in Workers :
        /\ manifest_dir.set
        /\ fs[PathJoin(manifest_dir.value, req[w].path)] = Absent
        /\ FailedAt(w, "resolve_font_path")
        /\ pc[w] = "Failed"

-----------------------------------------------------------------------------
(* C4 *)

\* C4: a rasterizer failure short-circuits.  When otf2bdf could not be
\* started or exited non-zero, the run has failed with the corresponding
\* conversion-service error, it never wrote the intermediate file, never
\* invoked bdfconv and handed nothing to generate_output_tokens.
C4_RasterizerFailureShortCircuits ==
    \A w \in Workers :
        \A c \in Range(calls[w]) :
            (c.program = "otf2bdf" /\ c.outcome # "success")
                => /\ pc[w] = "Failed"
                   /\ result[w] \in ServiceErrors("otf2bdf", c.outcome)
                   /\ ~Ran(w, "fs::write")
                   /\ CallsOf(w, "bdfconv") = <<>>
                   /\ ~Ran(w, "generate_output_tokens")
                   /\ bdf_output[w] = NoBytes

\* otf2bdf has exited non-zero in some run.
C4_Witness ==
    \E w \in Workers :
        \E c \in Range(calls[w]) :
            /\ c.program = "otf2bdf"
            /\ c.outcome = "exit_failure"
            /\ pc[w] = "Failed"

-----------------------------------------------------------------------------
(* C3 *)

\* The bytes the run of w yields when nothing else touches the file system:
\* bdfconv's output for the file otf2bdf made of w's own font and arguments.
AloneBytes(w) ==
    LET points == specs_to_unicode_code_points(req[w].specs)
        raster == Otf2bdfArgs(font_path[w], req[w].size, points)
        pack == BdfconvArgs(bdf_file_path[w], points)
    IN  [kind |-> "u8g2",
         from |-> [kind |-> "bdf", from |-> FontContent(font_path[w]),
                   p |-> raster[2], l |-> raster[4]],
         m |-> pack[4]]

\* C3: independence of parallel requests.  For two different requests run
\* at the same time, between a run's write of its intermediate file and its
\* removal of it the file holds what that run wrote (no other run
\* overwrites or deletes it), and a run that emits tokens emits the bytes
\* it yields when run alone.
C3_ParallelRequestsIndependent ==
    \A w \in Workers :
        (\A v \in Workers \ {w} : req[v] # req[w])
            => /\ pc[w] \in {"Written", "Packed"} => fs[bdf_file_path[w]] = bdf_output[w]
               /\ pc[w] = "Emitted" => result[w] = Ok(req[w].name, AloneBytes(w))

-----------------------------------------------------------------------------
(* C5 *)

-----------------------------------------------------------------------------
(* C6 *)

EmptySelection == Err("EmptySelection")

\* C6: an empty selection is rejected.  A run whose `chars` entries resolve
\* to no code point invokes no conversion service and, once past path
\* resolution, fails with EmptySelection; no otf2bdf or bdfconv call carries
\* an empty selector.
C6_EmptySelectionRejected ==
    \A w \in Workers :
        /\ (Ran(w, "specs_to_unicode_code_points") /\ unicode_code_points[w] = <<>>)
               => /\ calls[w] = <<>>
                  /\ pc[w] \in Terminal => result[w] = EmptySelection
        /\ \A c \in Range(calls[w]) : c.args[4] # <<>>

-----------------------------------------------------------------------------
(* C10 *)

\* C10: frame property.  The file a run writes is not its font file (the
\* intermediate path differs from the resolved font path), and the font file
\* a run resolved still holds what it held: the run neither modifies nor
\* deletes it.
C10_SourceFontUntouched ==
    \A w \in Workers :
        /\ Ran(w, "fs::write") => bdf_file_path[w] # font_path[w]
        /\ Succeeded(w, "resolve_font_path")
               => fs[font_path[w]] = FontContent(font_path[w])

-----------------------------------------------------------------------------
(* C7 *)

\* The statements of generate_font_data in the order of the pipeline.
StageOrder ==
    << "resolve_font_path", "specs_to_unicode_code_points", "generate_bdf_from_otf",
       "fs::write", "generate_font_bytes_from_bdf", "fs::remove_file",
       "generate_output_tokens" >>

\* The stages of a run so far are the first ones of the pipeline, in order,
\* each run once, and all but the last one did what they were for.
StagesInOrder(w) ==
    /\ Len(stages[w]) <= Len(StageOrder)
    /\ \A i \in DOMAIN stages[w] :
          /\ stages[w][i].stage = StageOrder[i]
          /\ i < Len(stages[w]) => stages[w][i].ok

\* Where a run is, given the stages it has run.
PositionMatchesStages(w) ==
    LET n == Len(stages[w])
    IN  /\ pc[w] = "Failed" <=> (n > 0 /\ ~stages[w][n].ok)
        /\ pc[w] = "Emitted" <=> (n = Len(StageOrder) /\ stages[w][n].ok)
        /\ pc[w] = "Emitted" => \A i \in DOMAIN stages[w] : stages[w][i].ok
        /\ pc[w] = "Emitted" <=> result[w].status = "Ok"
        /\ pc[w] = "Failed" <=> result[w].status = "Err"

ServicesInvokedAtMostOnce(w) ==
    /\ Len(CallsOf(w, "otf2bdf")) <= 1
    /\ Len(CallsOf(w, "bdfconv")) <= 1
    /\ Len(CallsOf(w, "otf2bdf")) + Len(CallsOf(w, "bdfconv")) = Len(calls[w])
    /\ CallsOf(w, "otf2bdf") # <<>> <=> Ran(w, "generate_bdf_from_otf")
    /\ CallsOf(w, "bdfconv") # <<>> <=> Ran(w, "generate_font_bytes_from_bdf")

\* Nothing of a run that has ended changes any more.
TerminalIsFinal(w) ==
    pc[w] \in Terminal
        => /\ pc'[w] = pc[w]
           /\ result'[w] = result[w]
           /\ stages'[w] = stages[w]
           /\ calls'[w] = calls[w]

\* C7: pipeline ordering.  In every run the stages happen in the order path
\* resolution, character resolution, rasterization, intermediate write,
\* packing, (removal,) emission, each only after the one before succeeded;
\* each conversion service is invoked at most once; the run is Emitted only
\* when every stage, the removal included, succeeded, Failed exactly when
\* its last stage failed, and once Emitted or Failed it does nothing more.
C7_PipelineOrdering ==
    /\ [](\A w \in Workers :
             StagesInOrder(w) /\ PositionMatchesStages(w) /\ ServicesInvokedAtMostOnce(w))
    /\ [][\A w \in Workers : TerminalIsFinal(w)]_vars

\* One run has been Emitted and another has Failed at the removal.
C7_Witness ==
    \E w, v \in Workers :
        /\ pc[w] = "Emitted"
        /\ Len(stages[w]) = Len(StageOrder)
        /\ pc[v] = "Failed"
        /\ FailedAt(v, "fs::remove_file")

-----------------------------------------------------------------------------
(* Reading a selector argument back *)

\* The pieces of s between the occurrences of the character sep.
RECURSIVE SplitOn(_, _)
SplitOn(s, sep) ==
    IF \A i \in DOMAIN s : s[i] # sep THEN <<s>>
    ELSE LET i == CHOOSE k \in DOMAIN s : s[k] = sep /\ \A j \in 1..(k - 1) : s[j] # sep
         IN  <<SubSeq(s, 1, i - 1)>> \o SplitOn(SubSeq(s, i + 1, Len(s)), sep)

IsDigit(ch) == \E d \in DOMAIN Digits : Digits[d] = ch

\* A decimal numeral: digits only, at least one, no leading zero.
IsDecimal(piece) ==
    /\ piece # <<>>
    /\ \A i \in DOMAIN piece : IsDigit(piece[i])
    /\ Len(piece) > 1 => piece[1] # "0"

DigitValue(ch) == (CHOOSE d \in DOMAIN Digits : Digits[d] = ch) - 1

RECURSIVE ParseDecimal(_)
ParseDecimal(piece) ==
    IF piece = <<>> THEN 0
    ELSE 10 * ParseDecimal(SubSeq(piece, 1, Len(piece) - 1)) + DigitValue(piece[Len(piece)])

\* The selector is the decimal numerals of `points`, in their order,
\* with exactly one sep between neighbours and nothing else.
SelectorIs(selector, sep, points) ==
    IF points = <<>> THEN selector = <<>>
    ELSE LET pieces == SplitOn(selector, sep)
         IN  /\ Len(pieces) = Len(points)
             /\ \A i \in DOMAIN pieces :
                    IsDecimal(pieces[i]) /\ ParseDecimal(pieces[i]) = points[i]

\* The code points a list of `chars` entries names, as a set.
NamedSet(kind) ==
    CASE kind = "Numbers" -> 48..57
      [] kind = "LowerCase" -> 97..122
      [] kind = "UpperCase" -> 65..90
      [] kind = "Punctuation" -> {33, 34, 39, 40, 41, 44, 45, 46, 58, 59, 63}
Contributed(specs) ==
    UNION { IF specs[i].kind = "String" THEN Range(specs[i].s) ELSE NamedSet(specs[i].kind)
            : i \in DOMAIN specs }

\* A finite set of numbers in ascending order.
RECURSIVE Ascending(_)
Ascending(S) ==
    IF S = {} THEN <<>>
    ELSE LET least == CHOOSE x \in S : \A y \in S : x <= y
         IN  <<least>> \o Ascending(S \ {least})

StrictlyIncreasing(s) == \A i, j \in DOMAIN s : i < j => s[i] < s[j]

-----------------------------------------------------------------------------
(* C8 *)

\* "48 49 50 51 52 53 54 55 56 57" and "48,49,50,51,52,53,54,55,56,57"
NumbersSelector(sep) ==
    << "4", "8", sep, "4", "9", sep, "5", "0", sep, "5", "1", sep, "5", "2", sep,
       "5", "3", sep, "5", "4", sep, "5", "5", sep, "5", "6", sep, "5", "7" >>

\* C8: selector formatting.  Every otf2bdf call is
\*   -p <size> -l <selector> <font path>
\* with the run's code points, ascending, as decimal numerals joined by
\* single spaces; every bdfconv call is
\*   -f 1 -m <selector> -binary <intermediate path>
\* with the same code points in the same order joined by commas; for
\* `chars = Numbers` the selectors are "48 49 ... 57" and "48,49,...,57".
C8_SelectorFormatting ==
    \A w \in Workers :
        LET points == Ascending(Contributed(req[w].specs))
            font == PathJoin(ManifestDir, req[w].path)
        IN  \A c \in Range(calls[w]) :
                /\ c.program = "otf2bdf" =>
                      /\ Len(c.args) = 5
                      /\ c.args[1] = <<"-", "p">>
                      /\ c.args[2] = req[w].size
                      /\ c.args[3] = <<"-", "l">>
                      /\ SelectorIs(c.args[4], " ", points)
                      /\ c.args[5] = font
                      /\ req[w].specs = <<Numbers>> => c.args[4] = NumbersSelector(" ")
                /\ c.program = "bdfconv" =>
                      /\ Len(c.args) = 6
                      /\ c.args[1] = <<"-", "f">>
                      /\ c.args[2] = <<"1">>
                      /\ c.args[3] = <<"-", "m">>
                      /\ SelectorIs(c.args[4], ",", points)
                      /\ c.args[5] = <<"-", "b", "i", "n", "a", "r", "y">>
                      /\ c.args[6] = bdf_file_path[w]
                      /\ Succeeded(w, "fs::write")
                      /\ req[w].specs = <<Numbers>> => c.args[4] = NumbersSelector(",")

\* A run for `chars = Numbers` has invoked both conversion services.
C8_Witness ==
    \E w \in Workers :
        /\ req[w].specs = <<Numbers>>
        /\ CallsOf(w, "otf2bdf") # <<>>
        /\ CallsOf(w, "bdfconv") # <<>>

-----------------------------------------------------------------------------
(* C9 *)

Reverse(s) == [i \in 1..Len(s) |-> s[Len(s) + 1 - i]]

\* C9: ascending, deduplicated resolution.  What
\* specs_to_unicode_code_points returns for a list of entries is strictly
\* increasing, holds exactly the code points the entries contribute (so it
\* is the ascending listing of that set, whatever the order of the entries),
\* and is what it returns for the entries in the opposite order; "aabbcc"
\* resolves to 97, 98, 99.
C9_AscendingDeduplicated ==
    resolved =>
        /\ StrictlyIncreasing(code_points)
        /\ Range(code_points) = Contributed(selection)
        /\ code_points = Ascending(Contributed(selection))
        /\ code_points = specs_to_unicode_code_points(Reverse(selection))
        /\ selection = <<String(<<97, 97, 98, 98, 99, 99>>)>> => code_points = <<97, 98, 99>>

\* The resolver has returned for a literal with repeated, unordered
\* characters followed by a named set that overlaps it.
C9_Witness ==
    /\ resolved
    /\ selection = <<String(<<98, 97, 48>>), Numbers>>
    /\ Len(code_points) = 12

====
